---- MODULE Spec2Model ----
(***************************************************************************)
(* The serializer write path of src/serializer/serializer.cc: do_writes    *)
(* dispatches a batch of serializer_write_t to the physical layer, waits   *)
(* on one write_cond_t per physical write and commits the assembled        *)
(* index_write_op_t list with a single index_write.                        *)
(*                                                                         *)
(* Every do_writes call runs on its own coroutine (a task) on the          *)
(* serializer's home thread.  Coroutines are scheduled cooperatively: the  *)
(* physical layer invokes a completion sink from the event loop, never     *)
(* from within block_writes, so nothing runs between the return of         *)
(* block_writes and the end of perform_write.  One iteration of either     *)
(* loop of do_writes is one step; completions of physical writes, steps    *)
(* of other tasks and a crash may come between any two steps.              *)
(*                                                                         *)
(* Also modelled, each under a specification of its own:                   *)
(* serializer_block_write, the holders serializer_data_ptr_t, and          *)
(* json_protocol_t::parse_query of src/protob/json_shim.cc.                *)
(***************************************************************************)
EXTENDS Integers, Sequences, FiniteSets, TLC

\* ------------------------------------------------------------------ bounds
MaxBatch == 2
ConcMaxBatch == 2
LiveMaxBatch == 3
TwiceMaxBatch == 2
\* The longest sequence of calls made on the block buffer holders.
MaxPtrCalls == 4

\* ------------------------------------------------------------- state
VARIABLES
    pc,                 \* task -> position in do_writes
    writes,             \* task -> the batch (const std::vector<serializer_write_t>&)
    io_account,         \* task -> the file_account_t * argument
    i,                  \* task -> loop counter of the running loop
    block_write_conds,  \* task -> std::vector<write_cond_t *> (pointers into conds)
    index_write_ops,    \* task -> std::vector<index_write_op_t>
    conds,              \* every write_cond_t ever allocated, by address
    index,              \* the serializer's index: block id -> token, recency
    disk,               \* token -> content of the completed physical write
    nextToken,          \* the next token the physical layer issues
    inflight,           \* physical writes submitted and not yet completed
    log,                \* callbacks invoked and latches signaled, in order
    commits,            \* the argument of every index_write call, in order
    pre,                \* task -> the index when the task's do_writes began
    submitted,          \* every physical write ever submitted, in order
    uaf,                \* a deleted write_cond_t was used
    bw,                 \* caller -> its serializer_block_write call
    ptr_,               \* serializer_data_ptr_t -> its ptr_ (0: empty)
    mem,                \* every block buffer ever allocated, by address
    ptrlog,             \* the calls made on the holders, in order
    qry                 \* the parse_query call on the connection

taskVars == <<pc, writes, io_account, i, block_write_conds, index_write_ops, pre>>
serVars == <<conds, index, disk, nextToken, inflight, submitted, uaf>>
histVars == <<log, commits>>
otherVars == <<bw, ptr_, mem, ptrlog, qry>>
vars == <<taskVars, serVars, histVars, otherVars>>

Tasks == {1, 2}
\* The serializer_data_ptr_t objects.
Holders == {1, 2}
\* The coroutines that call serializer_block_write.
Callers == {1, 2}
BlockIds == {1, 2}
Recencies == {5, 9}

\* counted_t<standard_block_token_t>(): the null token
NullToken == 0
\* repli_timestamp_t::invalid
InvalidRecency == -1

\* The caller's memory.  A block lives in a ser_buffer_t: a header cell
\* followed by the cache data; the buffer cache hands out the address of
\* the cache data.
Heap == <<"hdr", "X", "hdr", "Y">>
Bufs == {2, 4}
HeapAt(a) == IF a \in DOMAIN Heap THEN Heap[a] ELSE "garbage"

\* The block versions a caller writes: a recency and the buffer holding
\* the content of that version.
Versions == {<<5, 2>>, <<9, 4>>}

\* ------------------------------------------------ serializer_write_t
make_touch(block_id, recency) ==
    [block_id |-> block_id, action_type |-> "TOUCH", buf |-> 0,
     recency |-> recency, io_callback |-> FALSE, launch_callback |-> FALSE]

make_update(block_id, recency, buf, io_callback, launch_callback) ==
    [block_id |-> block_id, action_type |-> "UPDATE", buf |-> buf,
     recency |-> recency, io_callback |-> io_callback,
     launch_callback |-> launch_callback]

make_delete(block_id) ==
    [block_id |-> block_id, action_type |-> "DELETE", buf |-> 0,
     recency |-> 0, io_callback |-> FALSE, launch_callback |-> FALSE]

\* The descriptors a caller of the single-task specification may pass.
Descriptors ==
    {make_update(b, v[1], v[2], ic, lc) :
        b \in BlockIds, v \in Versions, ic \in BOOLEAN, lc \in BOOLEAN}
    \cup {make_delete(b) : b \in BlockIds}
    \cup {make_touch(b, r) : b \in BlockIds, r \in Recencies}

\* The descriptors of the concurrent specification.
ConcDescriptors ==
    {make_update(b, 5, 2, FALSE, FALSE) : b \in BlockIds}
    \cup {make_delete(1)}

\* The descriptors of the specification with fair scheduling.
LiveDescriptors ==
    {make_update(b, 5, 2, TRUE, FALSE) : b \in BlockIds}
    \cup {make_delete(1), make_touch(2, 9)}

\* The descriptors of the specification of a batch committed twice.
TwiceDescriptors ==
    {make_update(b, v[1], v[2], FALSE, FALSE) :
        b \in BlockIds, v \in Versions}
    \cup {make_delete(b) : b \in BlockIds}
    \cup {make_touch(b, 9) : b \in BlockIds}

BatchesOf(D, n) == UNION {[1..k -> D] : k \in 0..n}

\* ------------------------------------------------ index_write_op_t
\* An optional field is a sequence of length at most one.
index_write_op_t(block_id) ==
    [block_id |-> block_id, token |-> <<>>, recency |-> <<>>]

ApplyOp(idx, op) ==
    [idx EXCEPT ![op.block_id] =
        [token |-> IF op.token = <<>> THEN @.token ELSE op.token[1],
         recency |-> IF op.recency = <<>> THEN @.recency ELSE op.recency[1]]]

RECURSIVE ApplyOps(_, _)
ApplyOps(idx, ops) ==
    IF ops = <<>> THEN idx
    ELSE ApplyOps(ApplyOp(idx, Head(ops)), Tail(ops))

\* index_write: the whole list becomes visible at once.
index_write(idx, ops) == ApplyOps(idx, ops)

\* ------------------------------------------------ write_cond_t
\* new write_cond_t(cb): task and idx name the write the handle belongs to.
\* trace is what has happened to the handle, in order.
write_cond_t(cb, t, k) ==
    [callback |-> cb, state |-> "unsignaled", task |-> t, idx |-> k,
     trace |-> <<"created">>]

Event(e, t, k, tok) == [ev |-> e, task |-> t, idx |-> k, tok |-> tok]

\* on_io_complete without the pulse() of line 44.
on_io_complete_no_pulse(c, tok) ==
    [log |-> (IF c.callback
                THEN <<Event("io_callback", c.task, c.idx, tok)>>
                ELSE <<>>),
     cond |-> [c EXCEPT !.trace =
                    @ \o (IF c.callback THEN <<"callback">> ELSE <<>>)]]

\* on_io_complete with pulse() before the caller's callback.
on_io_complete_pulse_first(c, tok) ==
    [log |-> (IF c.callback
                THEN <<Event("io_callback", c.task, c.idx, tok)>>
                ELSE <<>>),
     cond |-> [c EXCEPT !.state = "pulsed",
                        !.trace = @ \o <<"pulsed">>
                            \o (IF c.callback THEN <<"callback">> ELSE <<>>)]]

\* write_cond_t::on_io_complete: the caller's callback, then pulse().
on_io_complete(c, tok) ==
    [log |-> (IF c.callback
                THEN <<Event("io_callback", c.task, c.idx, tok)>>
                ELSE <<>>),
     cond |-> [c EXCEPT !.state = "pulsed",
                        !.trace = @ \o (IF c.callback THEN <<"callback">>
                                                      ELSE <<>>)
                                    \o <<"pulsed">>]]

\* ------------------------------------------------ perform_write
\* The conversion without the step back over the header.
convert_buffer_without_header(buf) == buf

convert_buffer_cache_buf_to_ser_buffer(buf) == buf - 1

\* buf_write_info_t(buf, block_size, block_id)
buf_write_info_t(ser_buf, block_id) ==
    [buf |-> ser_buf, block_id |-> block_id]

\* The write_infos vector of the UPDATE case.
WriteInfos(write, op) ==
    <<buf_write_info_t(convert_buffer_cache_buf_to_ser_buffer(write.buf),
                       op.block_id)>>

\* ser->block_writes(write_infos, acct, cb): the physical layer issues one
\* token per buf_write_info_t and puts the writes in flight; the content
\* written is the cache data of the ser_buffer_t, one cell past its header.
block_writes(write_infos, acct, cb, t, k) ==
    [infos |-> write_infos,
     acct |-> acct,
     cb |-> cb,
     task |-> t,
     idx |-> k,
     tokens |-> [n \in 1..Len(write_infos) |-> nextToken + n - 1],
     data |-> [n \in 1..Len(write_infos) |-> HeapAt(write_infos[n].buf + 1)]]

\* The launch callback invoked before line 64 has set op->token.
LaunchCallbackBeforeToken(write, t, k, tok) ==
    IF write.launch_callback
        THEN <<Event("on_write_launched", t, k, NullToken)>>
        ELSE <<>>

\* The launch callback invoked only if a completion callback was given.
LaunchCallbackIfIoCallback(write, t, k, tok) ==
    IF write.io_callback /\ write.launch_callback
        THEN <<Event("on_write_launched", t, k, tok)>>
        ELSE <<>>

\* The launch callback of the UPDATE case.
LaunchCallback(write, t, k, tok) ==
    IF write.launch_callback
        THEN <<Event("on_write_launched", t, k, tok)>>
        ELSE <<>>

\* The block_writes call with the default account in place of acct.
SubmitWriteDefaultAccount(write, acct, op, c, t, k) ==
    block_writes(WriteInfos(write, op), 0, c, t, k)

\* The block_writes call of the UPDATE case: lines 57-62.
SubmitWrite(write, acct, op, c, t, k) ==
    block_writes(WriteInfos(write, op), acct, c, t, k)

UpdateCase(write, acct, op, t, k) ==
    LET c == Len(conds) + 1
        w == SubmitWrite(write, acct, op, c, t, k)
    IN  [new_conds |-> <<write_cond_t(write.io_callback, t, k)>>,
         block_writes |-> <<w>>,
         log |-> LaunchCallback(write, t, k, w.tokens[1]),
         op |-> [op EXCEPT !.token = <<w.tokens[1]>>,
                           !.recency = <<write.recency>>]]

\* The DELETE case without line 73: the recency is left as it was.
DeleteCaseTokenOnly(op) ==
    [new_conds |-> <<>>,
     block_writes |-> <<>>,
     log |-> <<>>,
     op |-> [op EXCEPT !.token = <<NullToken>>]]

DeleteCase(op) ==
    [new_conds |-> <<>>,
     block_writes |-> <<>>,
     log |-> <<>>,
     op |-> [op EXCEPT !.token = <<NullToken>>,
                       !.recency = <<InvalidRecency>>]]

\* The TOUCH case on an op whose token was initialised to the null token.
TouchCaseNullToken(write, op) ==
    [new_conds |-> <<>>,
     block_writes |-> <<>>,
     log |-> <<>>,
     op |-> [op EXCEPT !.token = <<NullToken>>,
                       !.recency = <<write.recency>>]]

TouchCase(write, op) ==
    [new_conds |-> <<>>,
     block_writes |-> <<>>,
     log |-> <<>>,
     op |-> [op EXCEPT !.recency = <<write.recency>>]]

\* perform_write with the break of the UPDATE case missing: control falls
\* through into the DELETE case.
perform_write_fallthrough(write, acct, op, t, k) ==
    CASE write.action_type = "UPDATE" ->
            LET u == UpdateCase(write, acct, op, t, k)
            IN  [u EXCEPT !.op = DeleteCase(u.op).op]
      [] write.action_type = "DELETE" -> DeleteCase(op)
      [] write.action_type = "TOUCH"  -> TouchCase(write, op)

\* What one perform_write call does: the handles it allocates, the
\* physical writes it submits, the callbacks it invokes and the op it
\* leaves in *op.
perform_write(write, acct, op, t, k) ==
    CASE write.action_type = "UPDATE" -> UpdateCase(write, acct, op, t, k)
      [] write.action_type = "DELETE" -> DeleteCase(op)
      [] write.action_type = "TOUCH"  -> TouchCase(write, op)

\* The op stored over an earlier op of the same block id, if there is one.
PushOpReplacing(ops, op) ==
    IF \E k \in DOMAIN ops : ops[k].block_id = op.block_id
        THEN [k \in DOMAIN ops |->
                IF ops[k].block_id = op.block_id THEN op ELSE ops[k]]
        ELSE Append(ops, op)

\* index_write_ops.push_back(op): line 97.
PushOp(ops, op) == Append(ops, op)

\* guarantee(tokens.size() == 1): line 63; the process stops if it fails.
TokensGuarantee(r) ==
    \A n \in DOMAIN r.block_writes : Len(r.block_writes[n].tokens) = 1

NumTokens(ws) ==
    IF ws = <<>> THEN 0 ELSE Len(ws[1].tokens)

\* ------------------------------------------------ do_writes
Init ==
    /\ pc = [t \in Tasks |-> "idle"]
    /\ writes = [t \in Tasks |-> <<>>]
    /\ io_account = [t \in Tasks |-> 0]
    /\ i = [t \in Tasks |-> 1]
    /\ block_write_conds = [t \in Tasks |-> <<>>]
    /\ index_write_ops = [t \in Tasks |-> <<>>]
    /\ conds = <<>>
    /\ index \in [BlockIds ->
                    {[token |-> NullToken, recency |-> InvalidRecency]}]
                 \cup {[b \in BlockIds |->
                          IF b \in S
                            THEN [token |-> b, recency |-> 3]
                            ELSE [token |-> NullToken,
                                  recency |-> InvalidRecency]] :
                       S \in SUBSET BlockIds}
    /\ disk = [tok \in BlockIds |-> "W"]
    /\ nextToken = Cardinality(BlockIds) + 1
    /\ inflight = {}
    /\ submitted = <<>>
    /\ uaf = FALSE
    /\ log = <<>>
    /\ commits = <<>>
    /\ bw = [c \in Callers |->
                [pc |-> "idle", block_id |-> 0, buf |-> 0, cb |-> "none",
                 tokens |-> <<>>, ret |-> <<>>]]
    /\ ptr_ = [h \in Holders |-> 0]
    /\ mem = <<>>
    /\ ptrlog = <<>>
    /\ qry = [pc |-> "idle", wire |-> <<>>, token |-> 0, size |-> 0,
              read |-> 0, sent |-> <<>>, res |-> <<>>, exc |-> ""]
    /\ pre = [t \in Tasks |-> index]

\* do_writes is entered: lines 83-88.
StartWrites(t, D, n) ==
    /\ pc[t] = "idle"
    /\ \E b \in BatchesOf(D, n) :
          writes' = [writes EXCEPT ![t] = b]
    /\ io_account' = [io_account EXCEPT ![t] = t]
    /\ pc' = [pc EXCEPT ![t] = "dispatch"]
    /\ i' = [i EXCEPT ![t] = 1]
    /\ block_write_conds' = [block_write_conds EXCEPT ![t] = <<>>]
    /\ index_write_ops' = [index_write_ops EXCEPT ![t] = <<>>]
    /\ pre' = [pre EXCEPT ![t] = index]
    /\ UNCHANGED <<serVars, histVars>>
    /\ UNCHANGED otherVars

\* Step 1 with index_write called for each op as soon as it is assembled.
DispatchStepCommitting(t) ==
    /\ pc[t] = "dispatch"
    /\ i[t] <= Len(writes[t])
    /\ LET write == writes[t][i[t]]
           op == index_write_op_t(write.block_id)
           r == perform_write(write, io_account[t], op, t, i[t])
       IN  /\ TokensGuarantee(r)
           /\ conds' = conds \o r.new_conds
           /\ block_write_conds' =
                [block_write_conds EXCEPT ![t] =
                    @ \o [n \in 1..Len(r.new_conds) |-> Len(conds) + n]]
           /\ submitted' = submitted \o r.block_writes
           /\ inflight' = inflight \cup
                {Len(submitted) + n : n \in 1..Len(r.block_writes)}
           /\ nextToken' = nextToken + NumTokens(r.block_writes)
           /\ log' = log \o r.log
           /\ index_write_ops' =
                [index_write_ops EXCEPT ![t] = PushOp(@, r.op)]
           /\ index' = index_write(index, <<r.op>>)
    /\ i' = [i EXCEPT ![t] = @ + 1]
    /\ UNCHANGED <<pc, writes, io_account, pre, disk, uaf, commits>>
    /\ UNCHANGED otherVars

\* A loop that waits for the write of each UPDATE before it dispatches the
\* next descriptor.
DispatchStepSerial(t) ==
    /\ pc[t] = "dispatch"
    /\ i[t] <= Len(writes[t])
    /\ \A c \in DOMAIN conds :
            conds[c].task = t => conds[c].state # "unsignaled"
    /\ LET write == writes[t][i[t]]
           op == index_write_op_t(write.block_id)
           r == perform_write(write, io_account[t], op, t, i[t])
       IN  /\ TokensGuarantee(r)
           /\ conds' = conds \o r.new_conds
           /\ block_write_conds' =
                [block_write_conds EXCEPT ![t] =
                    @ \o [n \in 1..Len(r.new_conds) |-> Len(conds) + n]]
           /\ submitted' = submitted \o r.block_writes
           /\ inflight' = inflight \cup
                {Len(submitted) + n : n \in 1..Len(r.block_writes)}
           /\ nextToken' = nextToken + NumTokens(r.block_writes)
           /\ log' = log \o r.log
           /\ index_write_ops' =
                [index_write_ops EXCEPT ![t] = PushOp(@, r.op)]
    /\ i' = [i EXCEPT ![t] = @ + 1]
    /\ UNCHANGED <<pc, writes, io_account, pre, index, disk, uaf, commits>>
    /\ UNCHANGED otherVars

\* Step 1, one iteration of the loop: lines 91-98.
DispatchStep(t) ==
    /\ pc[t] = "dispatch"
    /\ i[t] <= Len(writes[t])
    /\ LET write == writes[t][i[t]]
           op == index_write_op_t(write.block_id)
           r == perform_write(write, io_account[t], op, t, i[t])
       IN  /\ TokensGuarantee(r)
           /\ conds' = conds \o r.new_conds
           /\ block_write_conds' =
                [block_write_conds EXCEPT ![t] =
                    @ \o [n \in 1..Len(r.new_conds) |-> Len(conds) + n]]
           /\ submitted' = submitted \o r.block_writes
           /\ inflight' = inflight \cup
                {Len(submitted) + n : n \in 1..Len(r.block_writes)}
           /\ nextToken' = nextToken + NumTokens(r.block_writes)
           /\ log' = log \o r.log
           /\ index_write_ops' =
                [index_write_ops EXCEPT ![t] = PushOp(@, r.op)]
    /\ i' = [i EXCEPT ![t] = @ + 1]
    /\ UNCHANGED <<pc, writes, io_account, pre, index, disk, uaf, commits>>
    /\ UNCHANGED otherVars

\* Step 1 ends: line 91.
DispatchDone(t) ==
    /\ pc[t] = "dispatch"
    /\ i[t] > Len(writes[t])
    /\ pc' = [pc EXCEPT ![t] = "wait"]
    /\ i' = [i EXCEPT ![t] = 1]
    /\ UNCHANGED <<writes, io_account, block_write_conds, index_write_ops,
                   pre, serVars, histVars>>
    /\ UNCHANGED otherVars

\* A wait that returns whether or not the handle has been pulsed.
WaitReturnsAtOnce(c) == conds[c].state \in {"unsignaled", "pulsed"}

\* cond_t::wait returns once the handle has been pulsed.
WaitReturns(c) == conds[c].state = "pulsed"

\* Step 2, one iteration of the loop: lines 101-104.
WaitStep(t) ==
    /\ pc[t] = "wait"
    /\ i[t] <= Len(block_write_conds[t])
    /\ LET c == block_write_conds[t][i[t]]
       IN  /\ WaitReturns(c)
           /\ conds' = [conds EXCEPT ![c].state = "deleted",
                                    ![c].trace = Append(@, "deleted")]
    /\ i' = [i EXCEPT ![t] = @ + 1]
    /\ UNCHANGED <<pc, writes, io_account, block_write_conds, index_write_ops,
                   pre, index, disk, nextToken, inflight, submitted, uaf,
                   histVars>>
    /\ UNCHANGED otherVars

\* Step 2 ends: lines 101 and 105.
WaitDone(t) ==
    /\ pc[t] = "wait"
    /\ i[t] > Len(block_write_conds[t])
    /\ block_write_conds' = [block_write_conds EXCEPT ![t] = <<>>]
    /\ pc' = [pc EXCEPT ![t] = "commit"]
    /\ UNCHANGED <<writes, io_account, i, index_write_ops, pre, serVars,
                   histVars>>
    /\ UNCHANGED otherVars

\* The list without its last op.
CommitOpsWithoutLast(t) ==
    SubSeq(index_write_ops[t], 1, Len(index_write_ops[t]) - 1)

\* The list do_writes hands to index_write: line 108.
CommitOps(t) == index_write_ops[t]

\* A last step that skips index_write when the list is empty.
IndexWriteSkipEmpty(t) ==
    /\ pc[t] = "commit"
    /\ index' = index_write(index, CommitOps(t))
    /\ commits' = IF CommitOps(t) = <<>> THEN commits
                  ELSE Append(commits, [task |-> t, ops |-> CommitOps(t)])
    /\ pc' = [pc EXCEPT ![t] = "done"]
    /\ UNCHANGED <<writes, io_account, i, block_write_conds, index_write_ops,
                   pre, conds, disk, nextToken, inflight, submitted, uaf,
                   log>>
    /\ UNCHANGED otherVars

\* Step 3: line 108, and the return of do_writes.
IndexWrite(t) ==
    /\ pc[t] = "commit"
    /\ index' = index_write(index, CommitOps(t))
    /\ commits' = Append(commits, [task |-> t, ops |-> CommitOps(t)])
    /\ pc' = [pc EXCEPT ![t] = "done"]
    /\ UNCHANGED <<writes, io_account, i, block_write_conds, index_write_ops,
                   pre, conds, disk, nextToken, inflight, submitted, uaf,
                   log>>
    /\ UNCHANGED otherVars

\* The physical layer completes a write in flight and invokes its
\* completion sink.
IoComplete(s) ==
    /\ s \in inflight
    /\ LET w == submitted[s]
           c == w.cb
       IN  /\ disk' = disk @@ [n \in {w.tokens[m] : m \in DOMAIN w.tokens}
                                 |-> w.data[CHOOSE m \in DOMAIN w.tokens :
                                                w.tokens[m] = n]]
           /\ IF conds[c].state = "unsignaled"
                THEN LET r == on_io_complete(conds[c], w.tokens[1])
                     IN  /\ conds' = [conds EXCEPT ![c] = r.cond]
                         /\ log' = log \o r.log
                         /\ uaf' = uaf
                ELSE /\ uaf' = TRUE
                     /\ conds' = [conds EXCEPT ![c].trace = Append(@, "used")]
                     /\ UNCHANGED log
    /\ inflight' = inflight \ {s}
    /\ UNCHANGED <<taskVars, index, nextToken, submitted, commits>>
    /\ UNCHANGED otherVars

\* The process dies while a do_writes call is under way: the tasks, their
\* memory and the writes in flight are lost; the index and the disk survive.
Crash ==
    /\ \E t \in Tasks : pc[t] \in {"dispatch", "wait", "commit"}
    /\ pc' = [t \in Tasks |-> "crashed"]
    /\ writes' = [t \in Tasks |-> <<>>]
    /\ io_account' = [t \in Tasks |-> 0]
    /\ i' = [t \in Tasks |-> 1]
    /\ block_write_conds' = [t \in Tasks |-> <<>>]
    /\ index_write_ops' = [t \in Tasks |-> <<>>]
    /\ conds' = <<>>
    /\ inflight' = {}
    /\ submitted' = <<>>
    /\ log' = <<>>
    /\ UNCHANGED <<pre, index, disk, nextToken, uaf, commits>>
    /\ UNCHANGED otherVars

\* One do_writes call, any batch, any order of physical completions.
Next ==
    \/ StartWrites(1, Descriptors, MaxBatch)
    \/ DispatchStep(1)
    \/ DispatchDone(1)
    \/ WaitStep(1)
    \/ WaitDone(1)
    \/ IndexWrite(1)
    \/ \E s \in inflight : IoComplete(s)
    \/ Crash

Spec == Init /\ [][Next]_vars

\* Two do_writes calls running concurrently.
NextConc ==
    \/ \E t \in Tasks : StartWrites(t, ConcDescriptors, ConcMaxBatch)
    \/ \E t \in Tasks : DispatchStep(t)
    \/ \E t \in Tasks : DispatchDone(t)
    \/ \E t \in Tasks : WaitStep(t)
    \/ \E t \in Tasks : WaitDone(t)
    \/ \E t \in Tasks : IndexWrite(t)
    \/ \E s \in inflight : IoComplete(s)
    \/ Crash

\* The index the concurrent calls find: every block written once.
InitIndexConc == [b \in BlockIds |-> [token |-> b, recency |-> 3]]

InitConc ==
    /\ Init
    /\ index = InitIndexConc

SpecConc == InitConc /\ [][NextConc]_vars

\* One do_writes call that is not interrupted.
NextLive ==
    \/ StartWrites(1, LiveDescriptors, LiveMaxBatch)
    \/ DispatchStep(1)
    \/ DispatchDone(1)
    \/ WaitStep(1)
    \/ WaitDone(1)
    \/ IndexWrite(1)
    \/ \E s \in inflight : IoComplete(s)

\* A step of the task running do_writes.
TaskStep(t) ==
    \/ DispatchStep(t)
    \/ DispatchDone(t)
    \/ WaitStep(t)
    \/ WaitDone(t)
    \/ IndexWrite(t)

\* The scheduler runs a coroutine that can run, index_write returns, and
\* the physical layer completes every write it has accepted.
SpecLive ==
    /\ Init
    /\ [][NextLive]_vars
    /\ WF_vars(TaskStep(1))
    /\ WF_vars(\E s \in inflight : IoComplete(s))

\* do_writes is entered a second time, with the content of the batch of
\* the call that has returned: lines 83-88.
StartAgain ==
    /\ pc[1] = "done"
    /\ pc[2] = "idle"
    /\ writes' = [writes EXCEPT ![2] = writes[1]]
    /\ io_account' = [io_account EXCEPT ![2] = io_account[1]]
    /\ pc' = [pc EXCEPT ![2] = "dispatch"]
    /\ i' = [i EXCEPT ![2] = 1]
    /\ block_write_conds' = [block_write_conds EXCEPT ![2] = <<>>]
    /\ index_write_ops' = [index_write_ops EXCEPT ![2] = <<>>]
    /\ pre' = [pre EXCEPT ![2] = index]
    /\ UNCHANGED <<serVars, histVars>>
    /\ UNCHANGED otherVars

\* One batch committed by two do_writes calls, one after the other.
NextTwice ==
    \/ StartWrites(1, TwiceDescriptors, TwiceMaxBatch)
    \/ StartAgain
    \/ \E t \in Tasks : DispatchStep(t)
    \/ \E t \in Tasks : DispatchDone(t)
    \/ \E t \in Tasks : WaitStep(t)
    \/ \E t \in Tasks : WaitDone(t)
    \/ \E t \in Tasks : IndexWrite(t)
    \/ \E s \in inflight : IoComplete(s)

SpecTwice == Init /\ [][NextTwice]_vars

\* ------------------------------------------------ serializer_block_write
\* A wait on the local completion sink that returns whether or not the
\* sink has been pulsed.
CbWaitReturnsAtOnce(c) == bw[c].cb \in {"unsignaled", "pulsed"}

\* cb.wait(), line 141, returns once cb has been pulsed.
CbWaitReturns(c) == bw[c].cb = "pulsed"

\* Lines 128-140: the local sink cb is constructed, the buffer is converted
\* and one write of one block is handed to block_writes with cb as its
\* completion sink; guarantee(tokens.size() == 1).
BlockWriteSubmit(c, buf, block_id, acct) ==
    /\ bw[c].pc = "idle"
    /\ LET ser_buf == convert_buffer_cache_buf_to_ser_buffer(buf)
           w == block_writes(<<buf_write_info_t(ser_buf, block_id)>>,
                             acct, c, c, 0)
       IN  /\ Len(w.tokens) = 1
           /\ submitted' = Append(submitted, w)
           /\ inflight' = inflight \cup {Len(submitted) + 1}
           /\ nextToken' = nextToken + Len(w.tokens)
           /\ bw' = [bw EXCEPT ![c] =
                        [pc |-> "wait", block_id |-> block_id, buf |-> buf,
                         cb |-> "unsignaled", tokens |-> w.tokens,
                         ret |-> <<>>]]
    /\ pre' = [pre EXCEPT ![c] = index]
    /\ UNCHANGED <<pc, writes, io_account, i, block_write_conds,
                   index_write_ops, conds, index, disk, uaf, histVars,
                   ptr_, mem, ptrlog, qry>>

\* The physical layer completes a write of a serializer_block_write call
\* and invokes its sink: cb.on_io_complete() is pulse(), line 131.  cb is a
\* local of the call and is gone once the call has returned.
BlockWriteIoComplete(s) ==
    /\ s \in inflight
    /\ LET w == submitted[s]
           c == w.cb
       IN  /\ disk' = disk @@ [n \in {w.tokens[m] : m \in DOMAIN w.tokens}
                                 |-> w.data[CHOOSE m \in DOMAIN w.tokens :
                                                w.tokens[m] = n]]
           /\ IF bw[c].pc = "wait"
                THEN /\ bw' = [bw EXCEPT ![c].cb = "pulsed"]
                     /\ uaf' = uaf
                ELSE /\ uaf' = TRUE
                     /\ bw' = bw
    /\ inflight' = inflight \ {s}
    /\ UNCHANGED <<taskVars, conds, index, nextToken, submitted, histVars,
                   ptr_, mem, ptrlog, qry>>

\* A return that also records the token in the index.
BlockWriteReturnCommitting(c) ==
    /\ bw[c].pc = "wait"
    /\ CbWaitReturns(c)
    /\ bw' = [bw EXCEPT ![c].pc = "returned", ![c].ret = <<bw[c].tokens[1]>>]
    /\ index' = [index EXCEPT ![bw[c].block_id].token = bw[c].tokens[1]]
    /\ UNCHANGED <<taskVars, conds, disk, nextToken, inflight,
                   submitted, uaf, histVars, ptr_, mem, ptrlog, qry>>

\* Lines 141-142: cb.wait() returns and the call returns tokens[0].
BlockWriteReturn(c) ==
    /\ bw[c].pc = "wait"
    /\ CbWaitReturns(c)
    /\ bw' = [bw EXCEPT ![c].pc = "returned", ![c].ret = <<bw[c].tokens[1]>>]
    /\ UNCHANGED <<taskVars, conds, index, disk, nextToken, inflight,
                   submitted, uaf, histVars, ptr_, mem, ptrlog, qry>>

\* serializer_block_write calls, each on its own coroutine.
NextBlockWrite ==
    \/ \E c \in Callers, buf \in Bufs, b \in BlockIds :
            BlockWriteSubmit(c, buf, b, c)
    \/ \E s \in inflight : BlockWriteIoComplete(s)
    \/ \E c \in Callers : BlockWriteReturn(c)

SpecBlockWrite == Init /\ [][NextBlockWrite]_vars

\* ------------------------------------------------ serializer_data_ptr_t
\* scoped_malloc_t::has
has(p) == p # 0

\* rassert(cond): the process goes on if cond holds and stops if not.
rassert(cond) == cond

\* ser->malloc(): a fresh block buffer.
ser_malloc == [frees |-> 0, from |-> 0]

\* ser->clone(p): a fresh block buffer with the content of buffer p.
ser_clone(p) == [frees |-> 0, from |-> p]

\* The record of a call: whether the holder, and the source of a clone,
\* owned a buffer when the call was made, and whether the call stopped
\* the process.
PtrCall(op, h, other, fatal) ==
    [op |-> op, h |-> h, other |-> other, owned |-> has(ptr_[h]),
     srcOwned |-> (IF other = 0 THEN FALSE ELSE has(ptr_[other])),
     fatal |-> fatal]

\* The process runs: no assertion has failed and the calls are not used up.
PtrRunning ==
    /\ Len(ptrlog) < MaxPtrCalls
    /\ \A n \in DOMAIN ptrlog : ~ptrlog[n].fatal

\* ptr_.reset(): the buffer, if there is one, goes back to the serializer.
reset(p) ==
    IF has(p) THEN [mem EXCEPT ![p].frees = @ + 1] ELSE mem

\* free without the rassert of line 112.
free_unchecked(h) ==
    /\ PtrRunning
    /\ mem' = reset(ptr_[h])
    /\ ptr_' = [ptr_ EXCEPT ![h] = 0]
    /\ ptrlog' = Append(ptrlog, PtrCall("free", h, 0, FALSE))
    /\ UNCHANGED <<taskVars, serVars, histVars, bw, qry>>

\* serializer_data_ptr_t::free: lines 111-114.
free(h) ==
    /\ PtrRunning
    /\ IF rassert(has(ptr_[h]))
         THEN /\ mem' = reset(ptr_[h])
              /\ ptr_' = [ptr_ EXCEPT ![h] = 0]
              /\ ptrlog' = Append(ptrlog, PtrCall("free", h, 0, FALSE))
         ELSE /\ ptrlog' = Append(ptrlog, PtrCall("free", h, 0, TRUE))
              /\ UNCHANGED <<ptr_, mem>>
    /\ UNCHANGED <<taskVars, serVars, histVars, bw, qry>>

\* serializer_data_ptr_t::init_malloc: lines 116-119.
init_malloc(h) ==
    /\ PtrRunning
    /\ IF rassert(~has(ptr_[h]))
         THEN /\ mem' = Append(mem, ser_malloc)
              /\ ptr_' = [ptr_ EXCEPT ![h] = Len(mem) + 1]
              /\ ptrlog' = Append(ptrlog, PtrCall("init_malloc", h, 0, FALSE))
         ELSE /\ ptrlog' = Append(ptrlog, PtrCall("init_malloc", h, 0, TRUE))
              /\ UNCHANGED <<ptr_, mem>>
    /\ UNCHANGED <<taskVars, serVars, histVars, bw, qry>>

\* serializer_data_ptr_t::init_clone: lines 121-125.
init_clone(h, other) ==
    /\ PtrRunning
    /\ IF rassert(has(ptr_[other])) /\ rassert(~has(ptr_[h]))
         THEN /\ mem' = Append(mem, ser_clone(ptr_[other]))
              /\ ptr_' = [ptr_ EXCEPT ![h] = Len(mem) + 1]
              /\ ptrlog' =
                    Append(ptrlog, PtrCall("init_clone", h, other, FALSE))
         ELSE /\ ptrlog' =
                    Append(ptrlog, PtrCall("init_clone", h, other, TRUE))
              /\ UNCHANGED <<ptr_, mem>>
    /\ UNCHANGED <<taskVars, serVars, histVars, bw, qry>>

\* Calls on the holders, in any order.
NextPtr ==
    \/ \E h \in Holders : free(h)
    \/ \E h \in Holders : init_malloc(h)
    \/ \E h, other \in Holders : init_clone(h, other)

SpecPtr == InitConc /\ [][NextPtr]_vars

\* ------------------------------------------------ json_protocol_t
\* wire_protocol_t::TOO_LARGE_QUERY_SIZE = 64 * MEGABYTE
TOO_LARGE_QUERY_SIZE == 67108864

\* The query tokens (int64_t) clients send.
QueryTokens == {-1, 7}

\* The sizes (uint32_t) clients declare: small ones, the ones about the
\* limit and one far over it.
QuerySizes ==
    {0, 1, 3, TOO_LARGE_QUERY_SIZE - 1, TOO_LARGE_QUERY_SIZE,
     TOO_LARGE_QUERY_SIZE + 1, 2147483647}

\* What the payload of a query is: text that is not JSON ("bad_json"),
\* JSON that is not a query ("bad_query"), or a query ("good").  The
\* shortest query has three characters; the empty text is not JSON.
PayloadKinds(size) ==
    IF size = 0 THEN {"bad_json"}
    ELSE IF size < 3 THEN {"bad_json", "bad_query"}
    ELSE {"bad_json", "bad_query", "good"}

\* sizeof(token) + sizeof(size)
HeaderBytes == 8 + 4

\* The comparison of line 110 with > for >=.
too_large_strict(size) == size > TOO_LARGE_QUERY_SIZE

\* The comparison of line 110.
too_large(size) == size >= TOO_LARGE_QUERY_SIZE

\* parse_query_from_buffer, lines 83-99: no result when the document has
\* a parse error (line 90) or when the query_params_t constructor throws
\* bt_exc_t (line 94); the query_params_t of the token otherwise.
parse_query_from_buffer(kind, token) ==
    IF kind = "bad_json" THEN <<>>
    ELSE IF kind = "bad_query" THEN <<>>
    ELSE <<[token |-> token]>>

\* error.fill_error(...) and send_response(&error, token, ...)
ErrorResponse(msg, token) ==
    [type |-> "CLIENT_ERROR", error |-> "RESOURCE_LIMIT", msg |-> msg,
     token |-> token]

\* A client puts a query on the connection and parse_query is called.
ClientSends(token, size, kind) ==
    /\ qry.pc = "idle"
    /\ qry' = [qry EXCEPT !.pc = "header",
                          !.wire = <<token, size, kind>>]
    /\ UNCHANGED <<taskVars, serVars, histVars, bw, ptr_, mem, ptrlog>>

\* Lines 105-108: the token and the size are read.
ReadHeader ==
    /\ qry.pc = "header"
    /\ qry' = [qry EXCEPT !.pc = "check",
                          !.token = qry.wire[1],
                          !.size = qry.wire[2],
                          !.read = HeaderBytes]
    /\ UNCHANGED <<taskVars, serVars, histVars, bw, ptr_, mem, ptrlog>>

\* Lines 110-118: a size at or over the limit is answered with an error
\* and tcp_conn_read_closed_exc_t is thrown.
CheckSize ==
    /\ qry.pc = "check"
    /\ IF too_large(qry.size)
         THEN qry' = [qry EXCEPT
                        !.pc = "thrown",
                        !.sent = Append(@, ErrorResponse("too_large",
                                                         qry.token)),
                        !.exc = "tcp_conn_read_closed_exc_t"]
         ELSE qry' = [qry EXCEPT !.pc = "payload"]
    /\ UNCHANGED <<taskVars, serVars, histVars, bw, ptr_, mem, ptrlog>>

\* Lines 120-122: the payload is read.
ReadPayload ==
    /\ qry.pc = "payload"
    /\ qry' = [qry EXCEPT !.pc = "parse", !.read = @ + qry.size]
    /\ UNCHANGED <<taskVars, serVars, histVars, bw, ptr_, mem, ptrlog>>

\* Lines 124-134: the payload is parsed; without a result an error is
\* sent; the result is returned.
ParseAndReturn ==
    /\ qry.pc = "parse"
    /\ LET res == parse_query_from_buffer(qry.wire[3], qry.token)
       IN  qry' = [qry EXCEPT
                        !.pc = "returned",
                        !.res = res,
                        !.sent = IF res = <<>>
                                   THEN Append(@, ErrorResponse("unparseable",
                                                                qry.token))
                                   ELSE @]
    /\ UNCHANGED <<taskVars, serVars, histVars, bw, ptr_, mem, ptrlog>>

\* One parse_query call on a connection whose reads and sends succeed.
NextQuery ==
    \/ \E token \in QueryTokens, size \in QuerySizes :
         \E kind \in PayloadKinds(size) : ClientSends(token, size, kind)
    \/ ReadHeader
    \/ CheckSize
    \/ ReadPayload
    \/ ParseAndReturn

SpecQuery == InitConc /\ [][NextQuery]_vars

\* ================================================================ claims
\* What the descriptors of a batch say, written from the descriptors alone.

\* The physical writes submitted for descriptor k of task t.
SubmittedFor(t, k) ==
    {s \in DOMAIN submitted : submitted[s].task = t /\ submitted[s].idx = k}

\* The handles allocated for descriptor k of task t.
CondsFor(t, k) ==
    {c \in DOMAIN conds : conds[c].task = t /\ conds[c].idx = k}

\* The token the physical layer issued for descriptor k of task t.
TokenIssued(t, k) ==
    IF SubmittedFor(t, k) = {} THEN -1
    ELSE LET s == CHOOSE x \in SubmittedFor(t, k) : TRUE
         IN  IF Len(submitted[s].tokens) = 0 THEN -1
             ELSE submitted[s].tokens[1]

\* The index entry a descriptor describes, given the entry before it.
Described(e, w, tok) ==
    CASE w.action_type = "UPDATE" -> [token |-> tok, recency |-> w.recency]
      [] w.action_type = "DELETE" ->
            [token |-> NullToken, recency |-> InvalidRecency]
      [] w.action_type = "TOUCH" -> [token |-> e.token, recency |-> w.recency]

\* The index after descriptors k.. of task t's batch, taken in batch order.
RECURSIVE DescribedIndex(_, _, _)
DescribedIndex(idx, t, k) ==
    IF k > Len(writes[t]) THEN idx
    ELSE LET w == writes[t][k]
         IN  DescribedIndex(
                [idx EXCEPT ![w.block_id] =
                    Described(@, w, TokenIssued(t, k))],
                t, k + 1)

\* The descriptors of task t's batch that name block id b.
Naming(t, b) == {k \in DOMAIN writes[t] : writes[t][k].block_id = b}

Max(S) == CHOOSE x \in S : \A y \in S : y <= x

\* C1: after do_writes has returned, the index is the index the call
\* found with the change of every descriptor of the batch applied, a block
\* id named more than once receiving its descriptors in batch order; the
\* entry of a block id named once is exactly what its descriptor describes
\* and the entry of a block id the batch does not name is unchanged.
C1_IndexReflectsBatch ==
    pc[1] = "done" =>
        /\ index = DescribedIndex(pre[1], 1, 1)
        /\ \A b \in BlockIds :
            /\ Naming(1, b) = {} => index[b] = pre[1][b]
            /\ Cardinality(Naming(1, b)) = 1 =>
                LET k == Max(Naming(1, b))
                IN  index[b] =
                        Described(pre[1][b], writes[1][k], TokenIssued(1, k))

\* A batch of an UPDATE and a TOUCH of two blocks has been committed.
C1_Witness ==
    /\ pc[1] = "done"
    /\ Len(writes[1]) = 2
    /\ writes[1][1].action_type = "UPDATE"
    /\ writes[1][2].action_type = "TOUCH"
    /\ writes[1][1].block_id # writes[1][2].block_id
    /\ pre[1][writes[1][2].block_id].token # NullToken
    /\ index # pre[1]

\* C2: whatever point a do_writes call has reached, a crash included, the
\* index is the index the call found or that index with the update of
\* every descriptor of the batch applied; it is the latter only once
\* index_write has run.
C2_AllOrNothing ==
    \/ index = pre[1]
    \/ /\ pc[1] = "done"
       /\ Len(index_write_ops[1]) = Len(writes[1])
       /\ index = ApplyOps(pre[1], index_write_ops[1])
       /\ index = DescribedIndex(pre[1], 1, 1)

\* The process crashed after a physical write of the batch had completed.
C2_Witness ==
    /\ pc[1] = "crashed"
    /\ \E tok \in DOMAIN disk : tok >= nextToken - 1 /\ tok \notin BlockIds
    /\ index = pre[1]

\* The descriptors of task t's batch that perform_write has processed.
Dispatched(t) == 1..Len(index_write_ops[t])

\* The physical write s has completed.
Completed(s) == s \notin inflight

\* C3: index_write is not invoked, and do_writes does not return, while a
\* completion handle of the batch is unsignaled or a physical write of the
\* batch is in flight; the index never holds a token whose physical write
\* has not completed.
C3_CommitAfterCompletion ==
    /\ \A t \in Tasks :
        pc[t] \in {"commit", "done"} =>
            /\ \A s \in DOMAIN submitted :
                submitted[s].task = t => Completed(s)
            /\ \A c \in DOMAIN conds :
                conds[c].task = t => conds[c].state # "unsignaled"
    /\ \A b \in BlockIds :
        index[b].token # NullToken => index[b].token \in DOMAIN disk

\* Two UPDATEs were committed whose physical writes completed in the
\* order opposite to their dispatch.
C3_Witness ==
    /\ pc[1] = "done"
    /\ Len(log) >= 2
    /\ \E m, n \in DOMAIN log :
        /\ m < n
        /\ log[m].ev = "io_callback" /\ log[m].idx = 2
        /\ log[n].ev = "io_callback" /\ log[n].idx = 1
    /\ index[1].token = 3
    /\ index[2].token = 4

\* C4: the index update of a DELETE descriptor carries the null token and
\* the invalid recency, no physical write is submitted and no completion
\* handle is allocated for it; after the commit a block whose last
\* descriptor is a DELETE has the null token and the invalid recency.
C4_Delete ==
    \A t \in Tasks :
        /\ \A k \in Dispatched(t) :
            writes[t][k].action_type = "DELETE" =>
                /\ index_write_ops[t][k] =
                    [block_id |-> writes[t][k].block_id,
                     token |-> <<NullToken>>,
                     recency |-> <<InvalidRecency>>]
                /\ SubmittedFor(t, k) = {}
                /\ CondsFor(t, k) = {}
        /\ pc[t] = "done" =>
            \A b \in BlockIds :
                (/\ Naming(t, b) # {}
                 /\ writes[t][Max(Naming(t, b))].action_type = "DELETE")
                => index[b] = [token |-> NullToken,
                               recency |-> InvalidRecency]

\* A block that had a token and a valid recency was deleted.
C4_Witness ==
    /\ pc[1] = "done"
    /\ \E k \in DOMAIN writes[1] :
        /\ writes[1][k].action_type = "DELETE"
        /\ pre[1][writes[1][k].block_id].token # NullToken
        /\ pre[1][writes[1][k].block_id].recency # InvalidRecency
        /\ index[writes[1][k].block_id].token = NullToken
    /\ submitted = <<>>

\* C5: the index update of a TOUCH descriptor carries the descriptor's
\* recency and no token, no physical write is submitted (no buffer is
\* handed to the physical layer) and no completion handle is allocated for
\* it; after the commit a block that only TOUCH descriptors name keeps the
\* token it had and has the recency of the last of them.
C5_Touch ==
    \A t \in Tasks :
        /\ \A k \in Dispatched(t) :
            writes[t][k].action_type = "TOUCH" =>
                /\ index_write_ops[t][k] =
                    [block_id |-> writes[t][k].block_id,
                     token |-> <<>>,
                     recency |-> <<writes[t][k].recency>>]
                /\ SubmittedFor(t, k) = {}
                /\ CondsFor(t, k) = {}
        /\ pc[t] = "done" =>
            \A b \in BlockIds :
                (/\ Naming(t, b) # {}
                 /\ \A k \in Naming(t, b) :
                        writes[t][k].action_type = "TOUCH")
                => /\ index[b].token = pre[t][b].token
                   /\ index[b].recency =
                        writes[t][Max(Naming(t, b))].recency

\* A block that had a token was touched, beside an UPDATE of the other
\* block.
C5_Witness ==
    /\ pc[1] = "done"
    /\ Len(writes[1]) = 2
    /\ writes[1][1].action_type = "TOUCH"
    /\ writes[1][2].action_type = "UPDATE"
    /\ writes[1][1].block_id # writes[1][2].block_id
    /\ pre[1][writes[1][1].block_id].token # NullToken
    /\ index[writes[1][1].block_id].token =
            pre[1][writes[1][1].block_id].token
    /\ index[writes[1][1].block_id].recency = 9
    /\ Len(submitted) = 1

\* The number of UPDATE descriptors among the first n of task t's batch.
NumUpdates(t, n) ==
    Cardinality({k \in 1..n : writes[t][k].action_type = "UPDATE"})

\* C6: for every UPDATE descriptor perform_write submits one physical
\* write of one block, for the descriptor's block id and of the
\* descriptor's buffer, under the call's I/O account and with the handle
\* allocated for the descriptor as its completion sink; one token is issued
\* and the descriptor's index update carries it and the descriptor's
\* recency.  The physical writes and the handles of a call are as many as
\* the UPDATE descriptors processed.
C6_Update ==
    \A t \in Tasks :
        pc[t] \in {"dispatch", "wait", "commit", "done"} =>
        /\ \A k \in Dispatched(t) :
            writes[t][k].action_type = "UPDATE" =>
                /\ Cardinality(SubmittedFor(t, k)) = 1
                /\ Cardinality(CondsFor(t, k)) = 1
                /\ \A s \in SubmittedFor(t, k) :
                    /\ Len(submitted[s].infos) = 1
                    /\ Len(submitted[s].tokens) = 1
                    /\ submitted[s].infos[1].block_id =
                            writes[t][k].block_id
                    /\ submitted[s].acct = io_account[t]
                    /\ submitted[s].cb \in CondsFor(t, k)
                    /\ \A s2 \in DOMAIN submitted :
                        s2 # s => submitted[s2].tokens[1] #
                                    submitted[s].tokens[1]
                    /\ index_write_ops[t][k] =
                        [block_id |-> writes[t][k].block_id,
                         token |-> <<submitted[s].tokens[1]>>,
                         recency |-> <<writes[t][k].recency>>]
        /\ Cardinality({s \in DOMAIN submitted : submitted[s].task = t})
                = NumUpdates(t, Len(index_write_ops[t]))
        /\ Cardinality({c \in DOMAIN conds : conds[c].task = t})
                = NumUpdates(t, Len(index_write_ops[t]))
        /\ pc[t] # "dispatch" =>
                Len(index_write_ops[t]) = Len(writes[t])

\* A batch of two UPDATEs of the same block was committed.
C6_Witness ==
    /\ pc[1] = "done"
    /\ Len(writes[1]) = 2
    /\ \A k \in {1, 2} : writes[1][k].action_type = "UPDATE"
    /\ writes[1][1].block_id = writes[1][2].block_id
    /\ Len(submitted) = 2
    /\ Len(conds) = 2
    /\ index[writes[1][1].block_id].token = submitted[2].tokens[1]

\* The descriptors of task t's batch that change the token of block b.
TokenWriters(t, b) ==
    {k \in Naming(t, b) : writes[t][k].action_type # "TOUCH"}

\* Reading the block a token refers to.
ReadBlock(tok) == IF tok \in DOMAIN disk THEN disk[tok] ELSE "unwritten"

\* C7: the block a completed physical write of an UPDATE left on disk
\* holds the content of the buffer the descriptor submitted; after the
\* commit, reading the token the index holds for a block whose last
\* UPDATE or DELETE descriptor is an UPDATE returns the content of that
\* descriptor's buffer.
C7_RoundTrip ==
    /\ \A s \in DOMAIN submitted :
        Completed(s) =>
            \A n \in DOMAIN submitted[s].tokens :
                ReadBlock(submitted[s].tokens[n]) =
                    HeapAt(writes[submitted[s].task][submitted[s].idx].buf)
    /\ \A t \in Tasks :
        pc[t] = "done" =>
            \A b \in BlockIds :
                (/\ TokenWriters(t, b) # {}
                 /\ writes[t][Max(TokenWriters(t, b))].action_type = "UPDATE")
                => ReadBlock(index[b].token) =
                        HeapAt(writes[t][Max(TokenWriters(t, b))].buf)

\* Two UPDATEs with different buffers were committed, and each block
\* reads back the content of its own buffer.
C7_Witness ==
    /\ pc[1] = "done"
    /\ Len(writes[1]) = 2
    /\ writes[1][1] = make_update(1, 5, 2, FALSE, FALSE)
    /\ writes[1][2] = make_update(2, 9, 4, FALSE, FALSE)
    /\ ReadBlock(index[1].token) = "X"
    /\ ReadBlock(index[2].token) = "Y"

\* The on_write_launched calls of task t, in the order they were made.
Launches(t) ==
    SelectSeq(log, LAMBDA e : e.ev = "on_write_launched" /\ e.task = t)

\* The on_write_launched calls the first n descriptors of task t's batch
\* ask for: one for each UPDATE with a launch callback, in batch order,
\* with the token issued for that write.
RECURSIVE ExpectedLaunches(_, _)
ExpectedLaunches(t, n) ==
    IF n = 0 THEN <<>>
    ELSE LET w == writes[t][n]
         IN  ExpectedLaunches(t, n - 1) \o
                (IF w.action_type = "UPDATE" /\ w.launch_callback
                    THEN <<Event("on_write_launched", t, n,
                                 TokenIssued(t, n))>>
                    ELSE <<>>)

\* C8: the launch callbacks of a batch are invoked once each, in the
\* order of the descriptors, each with the token issued for its own write;
\* all of them have been invoked when the dispatch phase ends, so before
\* index_write is called and before do_writes returns.
C8_LaunchOrder ==
    \A t \in Tasks :
        pc[t] \in {"dispatch", "wait", "commit", "done"} =>
            /\ Launches(t) = ExpectedLaunches(t, Len(index_write_ops[t]))
            /\ pc[t] \in {"wait", "commit", "done"} =>
                Launches(t) = ExpectedLaunches(t, Len(writes[t]))

\* index_write is about to be called for a batch of two UPDATEs with
\* launch callbacks, and both callbacks have been invoked.
C8_Witness ==
    /\ pc[1] = "commit"
    /\ Len(writes[1]) = 2
    /\ \A k \in {1, 2} :
        writes[1][k].action_type = "UPDATE" /\ writes[1][k].launch_callback
    /\ Len(Launches(1)) = 2
    /\ Launches(1)[1].idx = 1
    /\ Launches(1)[2].idx = 2
    /\ Launches(1)[1].tok # Launches(1)[2].tok

\* The positions of the log at which event e of descriptor k of task t is.
Positions(e, t, k) ==
    {m \in DOMAIN log :
        log[m].ev = e /\ log[m].task = t /\ log[m].idx = k}

\* C9: once the physical write of an UPDATE with a launch callback has
\* completed (its handle's on_io_complete has run), the launch callback
\* has been invoked, and it was invoked before the caller's completion
\* callback of the same write.
C9_LaunchBeforeCompletion ==
    \A s \in DOMAIN submitted :
        LET t == submitted[s].task
            k == submitted[s].idx
        IN  (/\ writes[t][k].launch_callback
             /\ \/ Completed(s)
                \/ conds[submitted[s].cb].state # "unsignaled"
                \/ Positions("io_callback", t, k) # {})
            => /\ Positions("on_write_launched", t, k) # {}
               /\ \A m \in Positions("on_write_launched", t, k) :
                    \A n \in Positions("io_callback", t, k) : m < n

\* The first write of a batch completed while the second was still to be
\* dispatched; both have a launch callback and a completion callback.
C9_Witness ==
    /\ pc[1] = "done"
    /\ Len(log) = 4
    /\ log[1].ev = "on_write_launched" /\ log[1].idx = 1
    /\ log[2].ev = "io_callback" /\ log[2].idx = 1
    /\ log[3].ev = "on_write_launched" /\ log[3].idx = 2
    /\ log[4].ev = "io_callback" /\ log[4].idx = 2

\* The index update a descriptor describes.
DescribedOp(w, tok) ==
    CASE w.action_type = "UPDATE" ->
            [block_id |-> w.block_id, token |-> <<tok>>,
             recency |-> <<w.recency>>]
      [] w.action_type = "DELETE" ->
            [block_id |-> w.block_id, token |-> <<NullToken>>,
             recency |-> <<InvalidRecency>>]
      [] w.action_type = "TOUCH" ->
            [block_id |-> w.block_id, token |-> <<>>,
             recency |-> <<w.recency>>]

\* The index updates task t's batch describes, one for each descriptor.
DescribedOps(t) ==
    [k \in 1..Len(writes[t]) |-> DescribedOp(writes[t][k], TokenIssued(t, k))]

\* The index after whole update lists, one list after the other.
RECURSIVE ApplyCommits(_, _)
ApplyCommits(idx, cs) ==
    IF cs = <<>> THEN idx
    ELSE ApplyCommits(ApplyOps(idx, Head(cs).ops), Tail(cs))

\* C10: with do_writes calls running concurrently, the index is at every
\* moment the initial index with whole update lists applied one after the
\* other, in the order of the index_write calls: each task calls
\* index_write at most once, has called it when do_writes has returned,
\* and the list it passed holds the update of every descriptor of its
\* batch.
C10_BatchesIndivisible ==
    /\ index = ApplyCommits(InitIndexConc, commits)
    /\ \A m, n \in DOMAIN commits :
        commits[m].task = commits[n].task => m = n
    /\ \A t \in Tasks :
        pc[t] = "done" =>
            \E n \in DOMAIN commits :
                /\ commits[n].task = t
                /\ commits[n].ops = DescribedOps(t)
    /\ \A n \in DOMAIN commits :
        pc[commits[n].task] \in {"done", "crashed"}

\* Two batches of two UPDATEs each, of the same two blocks, were
\* dispatched alternately; the task that began later committed first.
C10_Witness ==
    /\ pc = [t \in Tasks |-> "done"]
    /\ \A t \in Tasks :
        /\ Len(writes[t]) = 2
        /\ writes[t][1] = make_update(1, 5, 2, FALSE, FALSE)
        /\ writes[t][2] = make_update(2, 5, 2, FALSE, FALSE)
    /\ TokenIssued(1, 1) < TokenIssued(2, 1)
    /\ TokenIssued(2, 1) < TokenIssued(1, 2)
    /\ TokenIssued(1, 2) < TokenIssued(2, 2)
    /\ commits[1].task = 2
    /\ commits[2].task = 1
    /\ index[1].token = TokenIssued(1, 1)
    /\ index[2].token = TokenIssued(1, 2)

\* C11: a do_writes call that has begun returns, whatever the batch and
\* whatever the order in which its physical writes complete, given that
\* every physical write completes and that the task is scheduled.
C11_Returns == (pc[1] = "dispatch") ~> (pc[1] = "done")

\* The task waits on the first handle of three while the third write has
\* completed already and the second has not.
C11_Witness ==
    /\ pc[1] = "wait"
    /\ i[1] = 1
    /\ Len(block_write_conds[1]) = 3
    /\ conds[block_write_conds[1][1]].state = "unsignaled"
    /\ conds[block_write_conds[1][2]].state = "unsignaled"
    /\ conds[block_write_conds[1][3]].state = "pulsed"

\* The ops in list ops name, in order, the block ids of the first
\* Len(ops) descriptors of task t's batch.
OpsFollowBatch(t, ops) ==
    /\ Len(ops) <= Len(writes[t])
    /\ \A k \in DOMAIN ops : ops[k].block_id = writes[t][k].block_id

\* C12: a batch that names a block id more than once is processed like
\* any other.  The list of index updates has one entry for each descriptor
\* processed, in batch order, entry k for the block id of descriptor k, and
\* the list passed to index_write has one for each descriptor of the batch;
\* after the commit a block id that two UPDATEs name holds the token and
\* the recency of the later one, if no other descriptor follows it.
C12_SameBlockTwice ==
    \A t \in Tasks :
        pc[t] \in {"dispatch", "wait", "commit", "done"} =>
            /\ OpsFollowBatch(t, index_write_ops[t])
            /\ Len(index_write_ops[t]) =
                    IF pc[t] = "dispatch" THEN i[t] - 1 ELSE Len(writes[t])
            /\ \A n \in DOMAIN commits :
                commits[n].task = t =>
                    /\ OpsFollowBatch(t, commits[n].ops)
                    /\ Len(commits[n].ops) = Len(writes[t])
            /\ pc[t] = "done" =>
                \A j, k \in DOMAIN writes[t] :
                    (/\ j < k
                     /\ writes[t][j].action_type = "UPDATE"
                     /\ writes[t][k].action_type = "UPDATE"
                     /\ writes[t][j].block_id = writes[t][k].block_id
                     /\ k = Max(Naming(t, writes[t][k].block_id)))
                    => index[writes[t][k].block_id] =
                            [token |-> TokenIssued(t, k),
                             recency |-> writes[t][k].recency]

\* Two UPDATEs of block 1, of different versions, were committed: the
\* list passed to index_write has both and the index has the second.
C12_Witness ==
    /\ pc[1] = "done"
    /\ Len(writes[1]) = 2
    /\ writes[1][1] = make_update(1, 9, 4, FALSE, FALSE)
    /\ writes[1][2] = make_update(1, 5, 2, FALSE, FALSE)
    /\ Len(commits) = 1
    /\ Len(commits[1].ops) = 2
    /\ commits[1].ops[1].token # commits[1].ops[2].token
    /\ index[1] = [token |-> TokenIssued(1, 2), recency |-> 5]
    /\ ReadBlock(index[1].token) = "X"

\* The entry of block b is what the descriptors of task t's batch that
\* name b describe, read one by one: the last of them decides the recency,
\* the last UPDATE or DELETE among them the token.
PostconditionsHold(t, b) ==
    LET last == Max(Naming(t, b))
        w == writes[t][last]
    IN  /\ w.action_type = "DELETE" =>
                index[b] = [token |-> NullToken, recency |-> InvalidRecency]
        /\ w.action_type = "TOUCH" => index[b].recency = w.recency
        /\ w.action_type = "UPDATE" =>
                index[b] = [token |-> TokenIssued(t, last),
                            recency |-> w.recency]
        /\ TokenWriters(t, b) = {} => index[b].token = pre[t][b].token
        /\ TokenWriters(t, b) # {} =>
            LET tw == writes[t][Max(TokenWriters(t, b))]
            IN  /\ tw.action_type = "DELETE" => index[b].token = NullToken
                /\ tw.action_type = "UPDATE" =>
                    /\ index[b].token = TokenIssued(t, Max(TokenWriters(t, b)))
                    /\ ReadBlock(index[b].token) = HeapAt(tw.buf)

\* C13: when the content of a batch is committed by a second do_writes
\* call, after the first has returned, the second call leaves the index as
\* its descriptors describe, as the first did: DELETE entries null and
\* invalid, TOUCH entries with the given recency and the token they had,
\* UPDATE entries with the given recency and a token of the second call
\* that reads back the submitted buffer; blocks the batch does not name
\* are as they were before the first call, no handle is used after its
\* deletion, and a batch without UPDATE leaves the index of the first
\* call unchanged.
C13_SecondCommit ==
    pc[2] = "done" =>
        /\ pre[2] = DescribedIndex(pre[1], 1, 1)
        /\ index = DescribedIndex(pre[2], 2, 1)
        /\ \A b \in BlockIds :
            /\ Naming(2, b) # {} => PostconditionsHold(2, b)
            /\ Naming(2, b) = {} => index[b] = pre[1][b]
            /\ index[b].token # NullToken => index[b].token \in DOMAIN disk
        /\ (\A k \in DOMAIN writes[2] : writes[2][k].action_type # "UPDATE")
                => index = pre[2]
        /\ uaf = FALSE

\* A batch of a DELETE and a TOUCH of a block that had a token was
\* committed twice.
C13_Witness ==
    /\ pc[2] = "done"
    /\ writes[1] = <<make_delete(1), make_touch(2, 9)>>
    /\ writes[2] = writes[1]
    /\ pre[1][1].token # NullToken
    /\ pre[1][2].token # NullToken
    /\ pre[2] # pre[1]
    /\ index = pre[2]
    /\ Len(commits) = 2

\* The life of a handle with a caller's callback, and of one without.
Lifecycle(cb) ==
    IF cb THEN <<"created", "callback", "pulsed", "deleted">>
          ELSE <<"created", "pulsed", "deleted">>

IsPrefix(p, q) == Len(p) <= Len(q) /\ p = SubSeq(q, 1, Len(p))

\* C15: what happens to a completion handle is, in this order and once
\* each: it is created, the caller's completion callback is invoked if one
\* was given, the handle is pulsed, the handle is deleted.  The caller's
\* callback of an UPDATE has been invoked once when the handle is pulsed
\* and never before the write completes; no handle is pulsed or otherwise
\* used after its deletion, and when do_writes returns every handle of the
\* call has gone through its whole life.
C15_HandleLifecycle ==
    /\ uaf = FALSE
    /\ \A c \in DOMAIN conds :
        LET h == conds[c]
            calls == Positions("io_callback", h.task, h.idx)
        IN  /\ IsPrefix(h.trace, Lifecycle(h.callback))
            /\ h.state = "unsignaled" <=> h.trace = <<"created">>
            /\ h.state = "deleted" <=> h.trace = Lifecycle(h.callback)
            /\ h.state = "deleted" =>
                \A s \in DOMAIN submitted :
                    submitted[s].cb = c => Completed(s)
            /\ Cardinality(calls) =
                    IF h.callback /\ h.state # "unsignaled" THEN 1 ELSE 0
            /\ writes[h.task][h.idx].io_callback = h.callback
            /\ pc[h.task] \in {"commit", "done"} => h.state = "deleted"

\* do_writes has returned from a batch of two UPDATEs, one with a
\* completion callback and one without; the second write completed first.
C15_Witness ==
    /\ pc[1] = "done"
    /\ Len(conds) = 2
    /\ conds[1].trace = <<"created", "callback", "pulsed", "deleted">>
    /\ conds[2].trace = <<"created", "pulsed", "deleted">>
    /\ disk[3] = "Y"
    /\ disk[4] = "X"

\* The physical writes of task t that are in flight.
Outstanding(t) == {s \in inflight : submitted[s].task = t}

\* C16: while a descriptor of the batch is still to be dispatched the task
\* has waited on no handle and its next dispatch step can be taken whatever
\* the state of the writes already submitted; when the task waits, the
\* writes of all UPDATEs of the batch have been submitted; and a write in
\* flight can complete whichever handle the task is waiting on.
C16_DispatchBeforeWait ==
    \A t \in Tasks :
        /\ pc[t] = "dispatch" =>
            /\ \A c \in DOMAIN conds :
                    conds[c].task = t => conds[c].state # "deleted"
            /\ Cardinality({s \in DOMAIN submitted : submitted[s].task = t})
                    = NumUpdates(t, i[t] - 1)
            /\ i[t] <= Len(writes[t]) => ENABLED DispatchStep(t)
        /\ pc[t] = "wait" =>
            /\ Cardinality({s \in DOMAIN submitted : submitted[s].task = t})
                    = NumUpdates(t, Len(writes[t]))
            /\ Len(block_write_conds[t]) = NumUpdates(t, Len(writes[t]))
            /\ \A s \in Outstanding(t) : ENABLED IoComplete(s)

\* The task waits on the first handle of a batch of two UPDATEs while the
\* first write is in flight and the second has completed; before that, both
\* writes were in flight together (neither is on disk until it completes).
C16_Witness ==
    /\ pc[1] = "wait"
    /\ i[1] = 1
    /\ Len(block_write_conds[1]) = 2
    /\ conds[block_write_conds[1][1]].state = "unsignaled"
    /\ conds[block_write_conds[1][2]].state = "pulsed"
    /\ Outstanding(1) = {1}

\* Both writes of a batch of two UPDATEs are in flight while the task is
\* still in the dispatch loop.
C16_BothOutstanding ==
    /\ pc[1] = "dispatch"
    /\ Cardinality(Outstanding(1)) = 2

\* The index_write calls task t has made, as positions in commits.
CommitsOf(t) == {n \in DOMAIN commits : commits[n].task = t}

\* C19: a do_writes call has invoked index_write once when it has
\* returned and not at all before, and the list it passed has one op for
\* each descriptor of the batch; a call whose batch has no UPDATE, the
\* empty batch included, has allocated no handle and submitted no write,
\* and its wait loop ends without waiting.
C19_OneIndexWrite ==
    \A t \in Tasks :
        /\ pc[t] \in {"idle", "dispatch", "wait", "commit"} =>
                CommitsOf(t) = {}
        /\ Cardinality(CommitsOf(t)) <= 1
        /\ pc[t] = "done" =>
            /\ Cardinality(CommitsOf(t)) = 1
            /\ \A n \in CommitsOf(t) :
                    Len(commits[n].ops) = Len(writes[t])
        /\ pc[t] = "commit" => Len(index_write_ops[t]) = Len(writes[t])
        /\ (pc[t] \in {"dispatch", "wait", "commit", "done"}
                /\ NumUpdates(t, Len(writes[t])) = 0) =>
            /\ \A c \in DOMAIN conds : conds[c].task # t
            /\ \A s \in DOMAIN submitted : submitted[s].task # t
            /\ block_write_conds[t] = <<>>
            /\ pc[t] = "wait" =>
                    (ENABLED WaitDone(t)) /\ ~(ENABLED WaitStep(t))

\* do_writes has returned from the empty batch: one index_write with the
\* empty list, no handle, no write.
C19_Witness ==
    /\ pc[1] = "done"
    /\ writes[1] = <<>>
    /\ commits = <<[task |-> 1, ops |-> <<>>]>>
    /\ conds = <<>>
    /\ submitted = <<>>
    /\ index = pre[1]

\* The physical writes submitted by caller c's serializer_block_write.
BlockWritesOf(c) == {s \in DOMAIN submitted : submitted[s].cb = c}

\* C17: a serializer_block_write call has submitted one physical write,
\* of one block, for the block id and of the buffer it was given, and one
\* token was issued for it; the call has returned only if its completion
\* sink has been pulsed, and then the write is no longer in flight, what
\* it returned is the token issued and the block of that token is on
\* disk; the sink is never invoked after the call has returned.
C17_BlockWriteWaits ==
    /\ uaf = FALSE
    /\ \A c \in Callers :
        /\ bw[c].pc = "idle" => BlockWritesOf(c) = {}
        /\ bw[c].pc # "idle" =>
            /\ Cardinality(BlockWritesOf(c)) = 1
            /\ \A s \in BlockWritesOf(c) :
                /\ Len(submitted[s].infos) = 1
                /\ submitted[s].infos[1].block_id = bw[c].block_id
                /\ submitted[s].data = <<HeapAt(bw[c].buf)>>
                /\ submitted[s].tokens = bw[c].tokens
                /\ Len(bw[c].tokens) = 1
                /\ bw[c].pc = "returned" =>
                    /\ Completed(s)
                    /\ bw[c].cb = "pulsed"
                    /\ bw[c].ret = <<submitted[s].tokens[1]>>
                    /\ ReadBlock(bw[c].ret[1]) = HeapAt(bw[c].buf)
        /\ bw[c].pc # "returned" => bw[c].ret = <<>>

\* Caller 2, whose write was submitted second, has its token back while
\* the write of caller 1 is still in flight and caller 1 waits.
C17_Witness ==
    /\ bw[1].pc = "wait"
    /\ bw[1].cb = "unsignaled"
    /\ bw[1].tokens = <<3>>
    /\ 1 \in inflight
    /\ bw[2].pc = "returned"
    /\ bw[2].ret = <<4>>
    /\ ReadBlock(4) = "Y"

\* C18: serializer_block_write makes no index_write: no call has been
\* recorded, and when a call has returned the index entry of every block
\* id is what it was when the call began and no entry holds the token the
\* call returned.
C18_IndexUntouched ==
    /\ commits = <<>>
    /\ \A c \in Callers :
        bw[c].pc \in {"wait", "returned"} =>
            /\ index = pre[c]
            /\ bw[c].pc = "returned" =>
                \A b \in BlockIds : index[b].token # bw[c].ret[1]

\* A call has returned token 3 for block 1, which the index holds under
\* token 1 as before the call.
C18_Witness ==
    /\ bw[1].pc = "returned"
    /\ bw[1].block_id = 1
    /\ bw[1].ret = <<3>>
    /\ pre[1][1] = [token |-> 1, recency |-> 3]
    /\ index[1] = [token |-> 1, recency |-> 3]
    /\ ReadBlock(3) = "X"

\* C14: a free on a holder that owns a buffer leaves the holder empty and
\* releases that buffer, and no buffer is released twice; a free on an
\* empty holder, an init_malloc or init_clone on a holder that owns a
\* buffer and an init_clone from an empty source stop the process: the
\* call is the last one made and it changes neither a holder nor a buffer.
\* No other call stops the process.
C14_ReleasedOnce ==
    /\ \A a \in DOMAIN mem : mem[a].frees <= 1
    /\ \A h \in Holders : has(ptr_[h]) =>
            /\ ptr_[h] \in DOMAIN mem
            /\ mem[ptr_[h]].frees = 0
            /\ \A g \in Holders : ptr_[g] = ptr_[h] => g = h
    /\ \A n \in DOMAIN ptrlog :
        LET e == ptrlog[n]
        IN  /\ e.fatal <=>
                \/ e.op = "free" /\ ~e.owned
                \/ e.op = "init_malloc" /\ e.owned
                \/ e.op = "init_clone" /\ (e.owned \/ ~e.srcOwned)
            /\ e.fatal => n = Len(ptrlog)
            /\ (n = Len(ptrlog) /\ e.op = "free" /\ ~e.fatal) =>
                    ~has(ptr_[e.h])
            /\ (n = Len(ptrlog) /\ e.op # "free" /\ ~e.fatal) =>
                    has(ptr_[e.h])
    /\ Cardinality({a \in DOMAIN mem : mem[a].frees = 1}) =
            Cardinality({n \in DOMAIN ptrlog :
                            ptrlog[n].op = "free" /\ ~ptrlog[n].fatal})

\* A holder was given a buffer and freed, and the second free of the
\* same holder stopped the process.
C14_Witness ==
    /\ Len(ptrlog) = 3
    /\ ptrlog[1].op = "init_malloc" /\ ptrlog[1].h = 1 /\ ~ptrlog[1].fatal
    /\ ptrlog[2].op = "free" /\ ptrlog[2].h = 1 /\ ~ptrlog[2].fatal
    /\ ptrlog[3].op = "free" /\ ptrlog[3].h = 1 /\ ptrlog[3].fatal
    /\ mem[1].frees = 1
    /\ ~has(ptr_[1])

\* C20: a parse_query call for a query whose declared size is at or over
\* TOO_LARGE_QUERY_SIZE ends with tcp_conn_read_closed_exc_t after reading
\* the header alone and sending one error response with the query's
\* token; a call for a smaller query reads the payload and returns, with
\* the query and nothing sent if the payload is a query, with no query and
\* one error response with the query's token if not.  Nothing is sent
\* before the call ends.
C20_ParseQuery ==
    /\ qry.pc \in {"idle", "header", "check", "payload", "parse"} =>
            qry.sent = <<>> /\ qry.res = <<>> /\ qry.exc = ""
    /\ qry.pc \in {"thrown", "returned"} =>
        LET token == qry.wire[1]
            size == qry.wire[2]
            kind == qry.wire[3]
        IN  IF size >= TOO_LARGE_QUERY_SIZE
              THEN /\ qry.pc = "thrown"
                   /\ qry.read = HeaderBytes
                   /\ qry.sent = <<ErrorResponse("too_large", token)>>
                   /\ qry.exc = "tcp_conn_read_closed_exc_t"
                   /\ qry.res = <<>>
              ELSE /\ qry.pc = "returned"
                   /\ qry.read = HeaderBytes + size
                   /\ qry.exc = ""
                   /\ IF kind = "good"
                        THEN /\ qry.res = <<[token |-> token]>>
                             /\ qry.sent = <<>>
                        ELSE /\ qry.res = <<>>
                             /\ qry.sent =
                                    <<ErrorResponse("unparseable", token)>>

\* A query that declares exactly TOO_LARGE_QUERY_SIZE bytes has been
\* rejected.
C20_Witness ==
    /\ qry.pc = "thrown"
    /\ qry.wire[2] = TOO_LARGE_QUERY_SIZE
    /\ qry.read = HeaderBytes
    /\ Len(qry.sent) = 1
    /\ qry.sent[1].token = -1

====
